---- MODULE Spec2Model ----
(***************************************************************************)
(* NetPulse measurement engine: the test orchestrator                      *)
(* (NetworkTestService), the latency prober (LatencyTestService), the      *)
(* throughput engine (SpeedTestService) and the useNetworkTest hook that   *)
(* drives them.  One action is one run-to-completion segment of the        *)
(* JavaScript event loop: the code between two awaits on a timer or on     *)
(* network I/O, together with the promise continuations it triggers.       *)
(* Percentages are integers in tenths of a percent.                        *)
(***************************************************************************)
EXTENDS Integers, Sequences, FiniteSets, TLC

\* ---------------------------------------------------------------- bounds
MaxRuns == 2
Samples == 2
DownloadTicks == 2
UploadTicks == 2

\* ------------------------------------------------------ program constants
MaxEstimate == 1001 \* largest probe estimate drawn, in Mbps
Connections == 2    \* config.parallelConnections of a download measurement
Chunks == 2         \* chunks one connection can deliver
MaxHistory == 3     \* longest speed history
MaxSpeed == 4       \* largest speed sample, in Mbps
MaxRate == 20       \* largest constant rate of a download, in Mbps
MaxTicks == 6       \* most ticks of the progress interval of a download
MaxMetric == 2010   \* largest metric value classified, in tenths of its unit
MaxSpeedScore == 60 \* largest speed given to determineOverallQuality, in Mbps
MaxBeyond == 3      \* latencies drawn beyond the last threshold, in ms over it
MaxResults == 3     \* most samples of a latency result set
MaxDataPoints == 2  \* config.maxDataPoints of a monitoring session (source: 50)
MaxSamples == 3     \* data points one monitoring hook samples
MaxTimers == 3      \* intervals one monitoring hook sets
MaxPending == 2     \* starts, and ticks, awaiting their sample at one time
InitPhases == 4
InitDurations == <<800, 1000, 700, 500>>  \* ms, runInitializationPhase
TransitionDuration == 1000                \* ms, runPhaseTransition
SampleInterval == 300                     \* ms, LatencyTestService interval
UploadMinDuration == 500                  \* ms, simulateUploadConnection
DownloadMinDuration == 1000               \* ms, simulateDownloadConnection
PingMethods == 4
TestServers == 4
SpeedLatencySamples == 5
LatencyValues == {20, 300}   \* round-trip times a ping may measure (ms)
TypicalLatency == {20}       \* the one the orchestrated runs measure
LATENCY_EXCELLENT == 50
LATENCY_GOOD == 100
LATENCY_FAIR == 200
LATENCY_POOR == 500

Runs == 1..MaxRuns
NoRun == 0

Min(a, b) == IF a < b THEN a ELSE b

VARIABLES
  isLocalhost,  \* window.location.hostname is localhost (fixed per page)
  logProgress,  \* the caller keeps the progress events it receives
  status,       \* useNetworkTest: status
  nts,          \* NetworkTestService: isRunning, callbacks (owning run)
  lat,          \* LatencyTestService: isRunning, callbacks, results
  spd,          \* SpeedTestService: isRunning, callbacks
  pc,           \* per run: position of startCompleteTest
  initI,        \* per run: loop index of runInitializationPhase
  lpc,          \* per run: position of its LatencyTestService.start call
  li,           \* per run: loop index i of the latency series (after the
                \* loop: the number of iterations it made)
  lm,           \* per run: index in `methods` of the ping method awaited
  succeeded,    \* per run: samples its series measured successfully
  spc,          \* per run: position of its SpeedTestService.start call
  sk,           \* per run: counter of the current speed sub-phase
  tickOn,       \* per run: the progress interval of its measurement is set
  returned,     \* per run: what its LatencyTestService.start call returned
  latencyResult,\* per run: what its latency onComplete callback received
  speedResult,  \* per run: whose measurement runSpeedTest resolved with
  outcome,      \* per run: how startCompleteTest settled
  cause,        \* per run: cause passed to onTestError
  completeFired,\* per run: it invoked onTestComplete
  errorFired,   \* per run: it invoked onTestError
  saved,        \* per run: it stored its result in the history
  failedIn,     \* per run: a component failed inside its own sub-test
  stoppedAt,    \* per run: phase it was in when stop() was first called
  lastPct,      \* per callbacks object and tag: last delivered percentage
  emitted,      \* progress events delivered by the last step, in order
  timers,       \* pending setTimeout delays, in the order they were set
  call,         \* the last direct call of a helper: its name and arguments
  result,       \* what that call returned
  conn,         \* per connection of a download measurement: its state
  dl,           \* a download measurement: position, isRunning, interval
  mon           \* useMonitoring: status, refs, interval timers, pending awaits

vars == <<isLocalhost, logProgress, status, nts, lat, spd, pc, initI, lpc, li, lm, succeeded,
          spc, sk, tickOn, returned, latencyResult,
          speedResult,
          outcome, cause, completeFired, errorFired, saved, failedIn,
          stoppedAt, lastPct, emitted, timers, call, result, conn, dl, mon>>

\* phase tags whose last delivered percentage is remembered
Tags == {"initializing", "latency", "download", "upload"}

NoResult == [samples |-> -1, packetLoss |-> -1, level |-> "none", by |-> NoRun]

\* The whole state as one record, so that the sequential code of a handler
\* is a composition of state-to-state operators.
St ==
  [isLocalhost |-> isLocalhost, logProgress |-> logProgress,
   status |-> status, nts |-> nts, lat |-> lat,
   spd |-> spd, pc |-> pc, initI |-> initI, lpc |-> lpc, li |-> li,
   lm |-> lm, succeeded |-> succeeded, spc |-> spc, sk |-> sk,
   tickOn |-> tickOn, returned |-> returned,
   latencyResult |-> latencyResult,
   speedResult |-> speedResult, outcome |-> outcome, cause |-> cause,
   completeFired |-> completeFired, errorFired |-> errorFired, saved |-> saved,
   failedIn |-> failedIn, stoppedAt |-> stoppedAt, lastPct |-> lastPct,
   emitted |-> <<>>, timers |-> timers]

Commit(s) ==
  /\ isLocalhost' = s.isLocalhost
  /\ logProgress' = s.logProgress
  /\ status' = s.status
  /\ nts' = s.nts
  /\ lat' = s.lat
  /\ spd' = s.spd
  /\ pc' = s.pc
  /\ initI' = s.initI
  /\ lpc' = s.lpc
  /\ li' = s.li
  /\ lm' = s.lm
  /\ succeeded' = s.succeeded
  /\ spc' = s.spc
  /\ sk' = s.sk
  /\ tickOn' = s.tickOn
  /\ returned' = s.returned
  /\ latencyResult' = s.latencyResult
  /\ speedResult' = s.speedResult
  /\ outcome' = s.outcome
  /\ cause' = s.cause
  /\ completeFired' = s.completeFired
  /\ errorFired' = s.errorFired
  /\ saved' = s.saved
  /\ failedIn' = s.failedIn
  /\ stoppedAt' = s.stoppedAt
  /\ lastPct' = s.lastPct
  /\ emitted' = s.emitted
  /\ timers' = s.timers
  /\ UNCHANGED <<call, result, conn, dl, mon>>

\* no helper has been called directly
NoCall == [op |-> "none"]

\* connections of a download measurement: 0 is the probe of
\* selectOptimalFileSize, 1..Connections are the parallel connections
ConnIds == 0..Connections
\* a connection that is not created yet
NoConn == [state |-> "none", received |-> 0, fault |-> "none", aborted |-> FALSE]

\* MonitoringSession.statistics before any data point
NoStatistics ==
  [averageLatency |-> 0, averageDownload |-> 0, averageUpload |-> 0,
   averageJitter |-> 0, averagePacketLoss |-> 0, overallQuality |-> "none"]
\* sessionRef.current is null; state.monitoring.currentSession is undefined
NoSession ==
  [id |-> 0, status |-> "none", dataPoints |-> <<>>,
   statistics |-> NoStatistics, endTime |-> FALSE]
\* currentData is undefined
NoData ==
  [id |-> 0, latency |-> 0, downloadSpeed |-> 0, uploadSpeed |-> 0,
   jitter |-> 0, packetLoss |-> 0, quality |-> "none"]
\* the hook after its first render: monitoring status 'stopped', no session,
\* no interval, no call of startMonitoring and no tick awaiting its sample,
\* no tick skipped yet. publishedAs tells whether currentSession is the object
\* of sessionRef itself or a shallow copy { ...sessionRef.current }; with a
\* reader that keeps the session it was given before (keeps), held is the
\* session published before the current one
Mounted ==
  [status |-> "stopped", error |-> FALSE, currentData |-> NoData,
   sessionRef |-> NoSession, currentSession |-> NoSession,
   monitoringIntervalRef |-> 0, intervals |-> {},
   publishedAs |-> "none", keeps |-> FALSE,
   held |-> NoSession, heldAs |-> "none",
   starts |-> 0, ticks |-> 0, scheduled |-> 0, sampled |-> 0,
   skipped |-> FALSE]

Idle ==
  /\ isLocalhost \in BOOLEAN
  /\ status = "idle"
  /\ nts = [isRunning |-> FALSE, callbacks |-> NoRun]
  /\ lat = [isRunning |-> FALSE, callbacks |-> NoRun, results |-> <<>>]
  /\ spd = [isRunning |-> FALSE, callbacks |-> NoRun]
  /\ initI = [r \in Runs |-> 0]
  /\ lpc = [r \in Runs |-> "none"]
  /\ li = [r \in Runs |-> 0]
  /\ lm = [r \in Runs |-> 0]
  /\ succeeded = [r \in Runs |-> 0]
  /\ spc = [r \in Runs |-> "none"]
  /\ sk = [r \in Runs |-> 0]
  /\ tickOn = [r \in Runs |-> FALSE]
  /\ returned = [r \in Runs |-> NoResult]
  /\ latencyResult = [r \in Runs |-> NoResult]
  /\ speedResult = [r \in Runs |-> NoRun]
  /\ outcome = [r \in Runs |-> "none"]
  /\ cause = [r \in Runs |-> "none"]
  /\ completeFired = [r \in Runs |-> FALSE]
  /\ errorFired = [r \in Runs |-> FALSE]
  /\ saved = [r \in Runs |-> FALSE]
  /\ failedIn = [r \in Runs |-> "none"]
  /\ stoppedAt = [r \in Runs |-> "none"]
  /\ lastPct = [c \in Runs |-> [t \in Tags |-> -1]]
  /\ emitted = <<>>
  /\ timers = <<>>
  /\ call = NoCall
  /\ result = NoCall
  /\ conn = [c \in ConnIds |-> NoConn]
  /\ dl = [pc |-> "idle", isRunning |-> FALSE, interval |-> FALSE]
  /\ mon \in {Mounted, [Mounted EXCEPT !.keeps = TRUE]}

\* any number of runs may be started, one after or over the other
Init ==
  /\ Idle
  /\ logProgress = FALSE
  /\ pc = [r \in Runs |-> "idle"]
  /\ ~mon.keeps

\* one client of the latency prober, which runs one series
InitSeries ==
  /\ Idle
  /\ logProgress = FALSE
  /\ pc = [r \in Runs |-> IF r = 1 THEN "idle" ELSE "done"]
  /\ ~mon.keeps

\* one run, whose caller keeps the progress events
InitSingleRun ==
  /\ Idle
  /\ logProgress = TRUE
  /\ pc = [r \in Runs |-> IF r = 1 THEN "idle" ELSE "done"]
  /\ ~mon.keeps

\* ------------------------------------------------------------ timer queue

\* setTimeout(resolve, dur) awaited by layer `layer` of run r
setTimer(s, r, layer, dur) ==
  [s EXCEPT !.timers = Append(@, [run |-> r, layer |-> layer, dur |-> dur])]

TimerIndex(r, layer) ==
  CHOOSE k \in 1..Len(timers) : timers[k].run = r /\ timers[k].layer = layer

\* the browser runs timers in deadline order: a delay cannot elapse while a
\* delay that was set earlier and is not longer is still pending
TimerDue(r, layer) ==
  /\ \E k \in 1..Len(timers) : timers[k].run = r /\ timers[k].layer = layer
  /\ \A j \in 1..(TimerIndex(r, layer) - 1) :
        timers[j].dur > timers[TimerIndex(r, layer)].dur

\* the state once the delay of layer `layer` of run r has elapsed
Elapsed(r, layer) ==
  LET k == TimerIndex(r, layer) IN
  [St EXCEPT !.timers = SubSeq(timers, 1, k - 1)
                          \o SubSeq(timers, k + 1, Len(timers))]

\* a transfer that is not simulated by timers ends whenever the network
\* lets it; so does a simulated one once stop() has made its next chunk
\* timer resolve it
TransferDue(r) ==
  (\E k \in 1..Len(timers) : timers[k].run = r /\ timers[k].layer = "transfer")
    => TimerDue(r, "transfer")

TransferEnded(r) ==
  IF \E k \in 1..Len(timers) : timers[k].run = r /\ timers[k].layer = "transfer"
  THEN Elapsed(r, "transfer") ELSE St

\* createRealDownloadConnection: on localhost the connection is simulated by
\* chunk timers that span at least DownloadMinDuration
createRealDownloadConnection(s, r) ==
  IF s.isLocalhost THEN setTimer(s, r, "transfer", DownloadMinDuration) ELSE s

RECURSIVE WithoutTransfers(_)
WithoutTransfers(q) ==
  IF q = <<>> THEN <<>>
  ELSE IF Head(q).layer = "transfer" THEN WithoutTransfers(Tail(q))
  ELSE <<Head(q)>> \o WithoutTransfers(Tail(q))

\* ------------------------------------------------- orchestrator: callbacks

\* this.callbacks.onTestProgress({type, progress}) of NetworkTestService,
\* invoked by run `by`; the receiver is whoever owns this.callbacks now.
onTestProgress(s, by, type, pct) ==
  LET to == s.nts.callbacks IN
  IF to = NoRun \/ ~s.logProgress THEN s
  ELSE [s EXCEPT
          !.emitted = Append(@, [to |-> to, by |-> by, type |-> type,
                                 pct |-> pct,
                                 prev |-> IF type \in Tags
                                          THEN s.lastPct[to][type] ELSE -1]),
          !.lastPct[to] = IF type \in Tags
                          THEN [@ EXCEPT ![type] = pct] ELSE @]

\* catch/finally of startCompleteTest for run r, then the catch of the
\* hook's startTest that awaited it.
startCompleteTestCatch(s, r, c) ==
  [s EXCEPT !.errorFired[r] = (s.nts.callbacks # NoRun),
            !.status = "error",
            !.nts.isRunning = FALSE,
            !.outcome[r] = "error",
            !.cause[r] = c,
            !.pc[r] = "done"]

\* Phase 5 of startCompleteTest: final progress event, saveTestResults,
\* onTestComplete, return; finally.
startCompleteTestFinish(s, r) ==
  LET s1 == onTestProgress(s, r, "completing", 1000) IN
  [s1 EXCEPT !.saved[r] = TRUE,
             !.completeFired[r] = (s.nts.callbacks # NoRun),
             !.status = IF s.nts.callbacks # NoRun THEN "completed" ELSE @,
             !.nts.isRunning = FALSE,
             !.outcome[r] = "completed",
             !.pc[r] = "done"]


\* ------------------------------------------------------ throughput engine

\* onProgress closure that runSpeedTest hands to SpeedTestService.start:
\* maps the sub-test's progress (tenths of a percent) to the overall one.
runSpeedTestOnProgress(s, by, type, progress) ==
  LET speedProgress ==
        IF type = "download" THEN 300 + (progress * 4) \div 10
        ELSE IF type = "upload" THEN 700 + (progress * 3) \div 10
        ELSE 0
  IN onTestProgress(s, by, type, Min(speedProgress, 990))

\* this.callbacks.onProgress(...) inside SpeedTestService
speedOnProgress(s, by, type, progress) ==
  IF s.spd.callbacks = NoRun THEN s
  ELSE runSpeedTestOnProgress(s, by, type, progress)

\* catch/finally of SpeedTestService.start for the call made by run r:
\* onError goes to the callbacks stored last, i.e. rejects their promise.
speedStartCatch(s, r, c) ==
  LET o == s.spd.callbacks
      s1 == [s EXCEPT !.spd.isRunning = FALSE, !.spc[r] = "done"]
  IN IF o # NoRun /\ s.pc[o] = "speed"
     THEN startCompleteTestCatch(s1, o, c)
     ELSE s1

\* end of SpeedTestService.start: onComplete(results), return; finally.
speedStartFinish(s, r) ==
  LET o == s.spd.callbacks
      s1 == [s EXCEPT !.spd.isRunning = FALSE, !.spc[r] = "done"]
  IN IF o # NoRun /\ s.pc[o] = "speed"
     THEN startCompleteTestFinish([s1 EXCEPT !.speedResult[o] = r], o)
     ELSE s1

\* testUploadSpeed up to its Promise.race
testUploadSpeed(s, r) ==
  [setTimer(s, r, "upload", UploadMinDuration)
     EXCEPT !.spc[r] = "ul", !.sk[r] = 0, !.tickOn[r] = TRUE]

\* SpeedTestService.start after `await this.testDownloadSpeed()`
afterDownload(s, r) ==
  IF ~s.spd.isRunning THEN speedStartCatch(s, r, "stopped")
  ELSE testUploadSpeed(s, r)

\* testDownloadSpeed up to the await of selectOptimalFileSize
testDownloadSpeed(s, r) ==
  [createRealDownloadConnection(s, r) EXCEPT !.spc[r] = "probe", !.sk[r] = 0]

\* SpeedTestService.start after `await this.testLatency()`
afterTestLatency(s, r) ==
  IF ~s.spd.isRunning THEN speedStartCatch(s, r, "stopped")
  ELSE testDownloadSpeed(s, r)

\* testLatency: progress event of iteration i, then the pings are awaited
testLatency(s, r, i) ==
  LET s1 == speedOnProgress(s, r, "latency", (i * 1000) \div SpeedLatencySamples)
  IN [s1 EXCEPT !.spc[r] = "lat", !.sk[r] = i]

\* selectBestServer up to its first await
selectBestServer(s, r) ==
  IF s.isLocalhost THEN testLatency(s, r, 0)
  ELSE LET s1 == speedOnProgress(s, r, "server-selection", 0)
       IN [s1 EXCEPT !.spc[r] = "select", !.sk[r] = 0]

\* SpeedTestService.start up to its first await
speedStart(s, r) ==
  IF s.spd.isRunning THEN [s EXCEPT !.spc[r] = "refused"]
  ELSE selectBestServer([s EXCEPT !.spd = [isRunning |-> TRUE,
                                            callbacks |-> r]], r)

\* runSpeedTest
runSpeedTest(s, r) ==
  speedStart([s EXCEPT !.pc[r] = "speed"], r)

\* ---------------------------------------------------------- latency prober

RECURSIVE SumLatency(_)
SumLatency(q) ==
  IF q = <<>> THEN 0 ELSE Head(q) + SumLatency(Tail(q))

\* assessConnectionQuality(mean) with mean = sum / n, n >= 1
assessConnectionQuality(sum, n) ==
  IF sum <= LATENCY_EXCELLENT * n THEN "excellent"
  ELSE IF sum <= LATENCY_GOOD * n THEN "good"
  ELSE IF sum <= LATENCY_FAIR * n THEN "fair"
  ELSE IF sum <= LATENCY_POOR * n THEN "poor"
  ELSE "very-poor"

\* LatencyTestService.calculateStatistics over this.results; packetLoss in
\* tenths of a percent, rounded as round(x, 1) does
calculateStatistics(results, by) ==
  IF Len(results) = 0
  THEN [samples |-> 0, packetLoss |-> 1000,
        level |-> assessConnectionQuality(0, 1), by |-> by]
  ELSE [samples |-> Len(results),
        packetLoss |-> (2000 * (Samples - Len(results)) + Samples)
                         \div (2 * Samples),
        level |-> assessConnectionQuality(SumLatency(results), Len(results)),
        by |-> by]

\* runPhaseTransition up to its delay
runPhaseTransition(s, r) ==
  [setTimer(onTestProgress(s, r, "transition", 300), r, "run",
            TransitionDuration)
     EXCEPT !.pc[r] = "transition"]

\* startCompleteTest after `await this.runLatencyTest()`
afterLatency(s, r) ==
  IF ~s.nts.isRunning THEN startCompleteTestCatch(s, r, "stopped")
  ELSE runPhaseTransition(s, r)

\* onProgress closure of runLatencyTest, called by LatencyTestService.start
latencyOnProgress(s, by, i) ==
  IF s.lat.callbacks = NoRun \/ s.pc[s.lat.callbacks] = "client" THEN s
  ELSE onTestProgress(s, by, "latency", 100 + (200 * (i + 1)) \div Samples)

\* LatencyTestService.start after its loop: calculateStatistics, onComplete
\* (resolves the promise of the callbacks stored last), return; finally.
latencyStartFinish(s, r, i) ==
  LET o == s.lat.callbacks
      statistics == calculateStatistics(s.lat.results, r)
      s1 == [s EXCEPT !.lat.isRunning = FALSE, !.lpc[r] = "done",
                      !.li[r] = i, !.lm[r] = 0, !.returned[r] = statistics]
  IN IF o # NoRun /\ s.pc[o] = "latency"
     THEN afterLatency([s1 EXCEPT !.latencyResult[o] = statistics], o)
     ELSE IF o # NoRun /\ s.pc[o] = "client"
     THEN [s1 EXCEPT !.latencyResult[o] = statistics]
     ELSE s1

\* measureSinglePing whose loop over `methods` starts at the second method
measureSinglePingSkippingFirst(s, r, i) ==
  [s EXCEPT !.lpc[r] = "ping", !.li[r] = i, !.lm[r] = 2]

\* measureSinglePing up to the await of its first method
measureSinglePing(s, r, i) ==
  [s EXCEPT !.lpc[r] = "ping", !.li[r] = i, !.lm[r] = 1]

\* loop head of LatencyTestService.start for index i
latencyLoop(s, r, i) ==
  IF i < Samples
  THEN IF ~s.lat.isRunning THEN latencyStartFinish(s, r, i)
       ELSE measureSinglePing(s, r, i)
  ELSE latencyStartFinish(s, r, i)

\* LatencyTestService.start up to its first await
latencyStart(s, r) ==
  IF s.lat.isRunning THEN [s EXCEPT !.lpc[r] = "refused"]
  ELSE latencyLoop([s EXCEPT !.lat = [isRunning |-> TRUE, callbacks |-> r,
                                      results |-> <<>>]], r, 0)

\* runLatencyTest
runLatencyTest(s, r) ==
  latencyStart([s EXCEPT !.pc[r] = "latency"], r)

\* startCompleteTest after `await this.runInitializationPhase()`
afterInitialization(s, r) ==
  IF ~s.nts.isRunning THEN startCompleteTestCatch(s, r, "stopped")
  ELSE runLatencyTest(s, r)

\* loop head of runInitializationPhase for index i
runInitializationPhase(s, r, i) ==
  IF i < InitPhases
  THEN IF ~s.nts.isRunning THEN startCompleteTestCatch(s, r, "stopped")
       ELSE [setTimer(onTestProgress(s, r, "initializing",
                                     ((i + 1) * 100) \div InitPhases),
                      r, "run", InitDurations[i + 1])
               EXCEPT !.pc[r] = "init", !.initI[r] = i]
  ELSE afterInitialization(s, r)

\* phase the run is in, as the caller sees it
phaseOf(s, r) ==
  CASE s.pc[r] = "init" -> "initializing"
    [] s.pc[r] = "latency" -> "latency"
    [] s.pc[r] = "client" /\ s.lpc[r] \in {"ping", "delay"} -> "latency"
    [] s.pc[r] = "transition" -> "transition"
    [] s.pc[r] = "speed" /\ s.spc[r] \in {"select", "lat"} -> "speed-setup"
    [] s.pc[r] = "speed" /\ s.spc[r] \in {"probe", "dl"} -> "download"
    [] s.pc[r] = "speed" /\ s.spc[r] = "ul" -> "upload"
    [] s.pc[r] = "speed" /\ s.spc[r] \in {"refused", "done"} -> "stalled"
    [] OTHER -> "none"

\* ------------------------------------------------------------------ actions

\* useNetworkTest.startTest -> NetworkTestService.startCompleteTest
StartTest(r) ==
  /\ pc[r] = "idle"
  /\ \A q \in Runs : q < r => pc[q] # "idle"
  /\ status # "running"
  /\ LET s0 == [St EXCEPT !.status = "running"] IN
     IF nts.isRunning
     THEN Commit([s0 EXCEPT !.status = "error", !.outcome[r] = "error",
                            !.cause[r] = "already-running", !.pc[r] = "done"])
     ELSE Commit(runInitializationPhase(
                   [s0 EXCEPT !.nts = [isRunning |-> TRUE, callbacks |-> r]],
                   r, 0))

\* useNetworkTest.stopTest -> NetworkTestService.stop
StopTest ==
  /\ \E r \in Runs : pc[r] \notin {"idle", "done"}
  /\ Commit([St EXCEPT
       !.nts.isRunning = FALSE,
       !.lat.isRunning = FALSE,
       !.spd.isRunning = FALSE,
       !.timers = WithoutTransfers(@),
       !.status = "idle",
       !.stoppedAt = [r \in Runs |->
                        IF pc[r] \notin {"idle", "done"} /\ stoppedAt[r] = "none"
                        THEN phaseOf(St, r) ELSE stoppedAt[r]]])

\* a delay of runInitializationPhase elapses
InitDelayDone(r) ==
  /\ pc[r] = "init"
  /\ TimerDue(r, "run")
  /\ Commit(runInitializationPhase(Elapsed(r, "run"), r, initI[r] + 1))

\* the awaited ping method resolves with latency v
PingResolve(r, v) ==
  /\ lpc[r] = "ping"
  /\ LET i == li[r]
         s1 == [St EXCEPT !.lat.results = Append(@, v),
                          !.succeeded[r] = @ + 1]
         s2 == latencyOnProgress(s1, r, i)
     IN IF i < Samples - 1
        THEN Commit([setTimer(s2, r, "series", SampleInterval)
                       EXCEPT !.lpc[r] = "delay"])
        ELSE Commit(latencyLoop(s2, r, i + 1))

\* the awaited ping method rejects or times out (what a method does is up
\* to the host: the network for the first three, `navigator` for the last);
\* measureSinglePing moves to the next method, or rethrows after the last
\* one and the loop of start() goes on with the next sample, without delay
PingReject(r) ==
  /\ lpc[r] = "ping"
  /\ IF lm[r] < PingMethods
     THEN Commit([St EXCEPT !.lm[r] = @ + 1])
     ELSE Commit(latencyLoop(St, r, li[r] + 1))

\* the delay between two samples elapses
SampleDelayDone(r) ==
  /\ lpc[r] = "delay"
  /\ TimerDue(r, "series")
  /\ Commit(latencyLoop(Elapsed(r, "series"), r, li[r] + 1))

\* the delay of runPhaseTransition elapses
TransitionDone(r) ==
  /\ pc[r] = "transition"
  /\ TimerDue(r, "run")
  /\ Commit(runSpeedTest(Elapsed(r, "run"), r))

\* one server of selectBestServer has been probed
ServerTested(r) ==
  /\ spc[r] = "select"
  /\ LET s1 == speedOnProgress(St, r, "server-selection",
                               ((sk[r] + 1) * 1000) \div TestServers)
     IN IF sk[r] + 1 < TestServers
        THEN Commit([s1 EXCEPT !.sk[r] = @ + 1])
        ELSE Commit(testLatency(s1, r, 0))

\* one iteration of SpeedTestService.testLatency (pings and delay) is over
SpeedLatencySample(r) ==
  /\ spc[r] = "lat"
  /\ IF sk[r] + 1 < SpeedLatencySamples
     THEN Commit(testLatency(St, r, sk[r] + 1))
     ELSE Commit(afterTestLatency(St, r))

\* the probe transfer of selectOptimalFileSize settles or times out; the
\* connections and the progress interval of testDownloadSpeed are started
ProbeDone(r) ==
  /\ spc[r] = "probe"
  /\ TransferDue(r)
  /\ Commit([createRealDownloadConnection(TransferEnded(r), r)
              EXCEPT !.spc[r] = "dl", !.sk[r] = 0, !.tickOn[r] = TRUE])

\* progress interval of testDownloadSpeed fires
DownloadTick(r) ==
  /\ tickOn[r]
  /\ spc[r] \in {"dl", "done"}
  /\ IF ~spd.isRunning
     THEN Commit([St EXCEPT !.tickOn[r] = FALSE])
     ELSE LET e == Min(sk[r] + 1, DownloadTicks) IN
          Commit([speedOnProgress(St, r, "download",
                                  Min((e * 1000) \div DownloadTicks, 1000))
                    EXCEPT !.sk[r] = e])

\* Promise.race of testDownloadSpeed resolves (all connections done, or the
\* duration timer): clearInterval, return
DownloadDone(r) ==
  /\ spc[r] = "dl"
  /\ TransferDue(r)
  /\ Commit(afterDownload([TransferEnded(r) EXCEPT !.tickOn[r] = FALSE], r))

\* a real connection rejects while reading its stream: Promise.all rejects,
\* testDownloadSpeed throws before clearInterval
DownloadConnectionFails(r) ==
  /\ spc[r] = "dl"
  /\ ~isLocalhost
  /\ Commit(speedStartCatch([St EXCEPT !.failedIn[r] = "download"],
                            r, "connection"))

\* progress interval of testUploadSpeed fires
UploadTick(r) ==
  /\ tickOn[r]
  /\ spc[r] = "ul"
  /\ IF ~spd.isRunning
     THEN Commit([St EXCEPT !.tickOn[r] = FALSE])
     ELSE LET e == Min(sk[r] + 1, UploadTicks) IN
          Commit([speedOnProgress(St, r, "upload",
                                  Min((e * 1000) \div UploadTicks, 1000))
                    EXCEPT !.sk[r] = e])

\* Promise.race of testUploadSpeed resolves (the simulated connections
\* have run for their duration): clearInterval, results
UploadDone(r) ==
  /\ spc[r] = "ul"
  /\ TimerDue(r, "upload")
  /\ Commit(speedStartFinish([Elapsed(r, "upload") EXCEPT !.tickOn[r] = FALSE],
                             r))

\* a client calls LatencyTestService.start with callbacks of its own
ProberStart(r) ==
  /\ pc[r] = "idle"
  /\ \A q \in Runs : q < r => pc[q] # "idle"
  /\ Commit(latencyStart([St EXCEPT !.pc[r] = "client"], r))

\* a client calls LatencyTestService.stop
ProberStop ==
  /\ \E r \in Runs : lpc[r] \in {"ping", "delay"}
  /\ Commit([St EXCEPT
       !.lat.isRunning = FALSE,
       !.stoppedAt = [r \in Runs |->
                        IF stoppedAt[r] = "none" THEN phaseOf(St, r)
                        ELSE stoppedAt[r]]])

Next ==
  \/ \E r \in Runs : StartTest(r)
  \/ StopTest
  \/ \E r \in Runs : InitDelayDone(r)
  \/ \E r \in Runs, v \in TypicalLatency : PingResolve(r, v)
  \/ \E r \in Runs : PingReject(r)
  \/ \E r \in Runs : SampleDelayDone(r)
  \/ \E r \in Runs : TransitionDone(r)
  \/ \E r \in Runs : ServerTested(r)
  \/ \E r \in Runs : SpeedLatencySample(r)
  \/ \E r \in Runs : ProbeDone(r)
  \/ \E r \in Runs : DownloadTick(r)
  \/ \E r \in Runs : DownloadDone(r)
  \/ \E r \in Runs : DownloadConnectionFails(r)
  \/ \E r \in Runs : UploadTick(r)
  \/ \E r \in Runs : UploadDone(r)

\* the latency prober driven by its own clients
NextProber ==
  \/ \E r \in Runs : ProberStart(r)
  \/ ProberStop
  \/ \E r \in Runs, v \in LatencyValues : PingResolve(r, v)
  \/ \E r \in Runs : PingReject(r)
  \/ \E r \in Runs : SampleDelayDone(r)

\* runs started through the hook, one after or over the other
Spec == Init /\ [][Next]_vars

\* what the environment owes a run: every timer fires and every request
\* settles, one way or the other
Completion ==
  \/ \E r \in Runs : InitDelayDone(r)
  \/ \E r \in Runs, v \in TypicalLatency : PingResolve(r, v)
  \/ \E r \in Runs : PingReject(r)
  \/ \E r \in Runs : SampleDelayDone(r)
  \/ \E r \in Runs : TransitionDone(r)
  \/ \E r \in Runs : ServerTested(r)
  \/ \E r \in Runs : SpeedLatencySample(r)
  \/ \E r \in Runs : ProbeDone(r)
  \/ \E r \in Runs : DownloadTick(r)
  \/ \E r \in Runs : DownloadDone(r)
  \/ \E r \in Runs : DownloadConnectionFails(r)
  \/ \E r \in Runs : UploadTick(r)
  \/ \E r \in Runs : UploadDone(r)

\* the same runs, with every network request and timer eventually completing
SpecLive == Init /\ [][Next]_vars /\ WF_vars(Completion)
\* one run of a caller that keeps the progress events
SpecSingleRun == InitSingleRun /\ [][Next]_vars
\* the latency prober driven by its own clients
SpecProber == Init /\ [][NextProber]_vars
\* one series of the latency prober, which its client may stop
SpecSeries == InitSeries /\ [][NextProber]_vars

\* ------------------------------------------------- helpers called directly

\* SpeedTestService.progressiveFiles: speed ranges in Mbps
progressiveFiles ==
  << [name |-> "small",   minSpeed |-> 0,   maxSpeed |-> 10],
     [name |-> "medium",  minSpeed |-> 10,  maxSpeed |-> 25],
     [name |-> "large",   minSpeed |-> 25,  maxSpeed |-> 50],
     [name |-> "xlarge",  minSpeed |-> 50,  maxSpeed |-> 100],
     [name |-> "xxlarge", minSpeed |-> 100, maxSpeed |-> 1000] >>

\* the files whose range test the loop of selectOptimalFileSize passes
FilesInRange(estimatedSpeed) ==
  {k \in 1..Len(progressiveFiles) :
     /\ estimatedSpeed >= progressiveFiles[k].minSpeed
     /\ estimatedSpeed <= progressiveFiles[k].maxSpeed}

\* selectOptimalFileSize after the probe: the first file of the table whose
\* range test passes, else the last file above 100 Mbps, else the default
selectOptimalFileSize(estimatedSpeed) ==
  IF FilesInRange(estimatedSpeed) # {}
  THEN progressiveFiles[CHOOSE k \in FilesInRange(estimatedSpeed) :
                          \A j \in FilesInRange(estimatedSpeed) : k <= j]
  ELSE IF estimatedSpeed > 100
       THEN progressiveFiles[Len(progressiveFiles)]
       ELSE progressiveFiles[3]

\* the variables of the services, which a direct call of a helper leaves alone
serviceVars ==
  <<isLocalhost, logProgress, status, nts, lat, spd, pc, initI, lpc, li, lm,
    succeeded, spc, sk, tickOn, returned, latencyResult, speedResult,
    outcome, cause, completeFired, errorFired, saved, failedIn, stoppedAt,
    lastPct, emitted, timers>>

\* the selector is applied to a probe estimate
SelectOptimalFileSize(e) ==
  /\ call = NoCall
  /\ call' = [op |-> "selectOptimalFileSize", estimatedSpeed |-> e]
  /\ result' = selectOptimalFileSize(e)
  /\ UNCHANGED <<serviceVars, conn, dl, mon>>

\* no helper has been called yet
NotCalled == call = NoCall

\* no run is started: a helper is called once, with any of its inputs
InitHelpers ==
  /\ Idle
  /\ logProgress = FALSE
  /\ pc = [r \in Runs |-> "done"]
  /\ ~mon.keeps

NextSelector ==
  NotCalled /\ \E e \in 0..MaxEstimate : SelectOptimalFileSize(e)

\* the payload selector applied to any probe estimate
SpecSelector == InitHelpers /\ [][NextSelector]_vars

\* ------------------------------------- one download measurement in detail

\* simulateChunk(i) of simulateDownloadConnection: the connection resolves
\* when the test is not running or all chunks are delivered, else it delivers
\* one chunk and sets the delay of the next one
simulateChunk(k, running) ==
  IF ~running \/ k.received >= Chunks
  THEN [k EXCEPT !.state = "resolved"]
  ELSE [k EXCEPT !.state = "simulated", !.received = k.received + 1]

\* the executor of the promise of createRealDownloadConnection: on localhost
\* the simulation starts at once, elsewhere the fetch is sent
createConnection(running) ==
  IF isLocalhost
  THEN simulateChunk(NoConn, running)
  ELSE [NoConn EXCEPT !.state = "request"]

\* the finally block of testDownloadSpeed: abort() on every parallel connection
abortConnections(cn) ==
  [c \in ConnIds |-> IF c = 0 THEN cn[c] ELSE [cn[c] EXCEPT !.aborted = TRUE]]

\* testDownloadSpeed returns its result: the interval is cleared and the
\* connections are aborted
returnResult(cn, d) ==
  [conn |-> abortConnections(cn),
   dl |-> [d EXCEPT !.pc = "returned", !.interval = FALSE]]

\* testDownloadSpeed throws: the connections are aborted, the interval stays
\* set, and the catch and finally blocks of start() clear isRunning
throwError(cn, d) ==
  [conn |-> abortConnections(cn),
   dl |-> [d EXCEPT !.pc = "raised", !.isRunning = FALSE]]

\* Promise.race of Promise.all(connections) and the duration: Promise.all
\* rejects with the first rejected connection and resolves when all resolved
awaitConnections(cn, d) ==
  IF d.pc # "waiting" THEN [conn |-> cn, dl |-> d]
  ELSE IF \E c \in 1..Connections : cn[c].state = "rejected"
       THEN throwError(cn, d)
  ELSE IF \A c \in 1..Connections : cn[c].state = "resolved"
       THEN returnResult(cn, d)
  ELSE [conn |-> cn, dl |-> d]

\* testDownloadSpeed after selectOptimalFileSize: the parallel connections are
\* created and the progress interval is set
startConnections(cn, d) ==
  awaitConnections(
    [c \in ConnIds |-> IF c = 0 THEN cn[c] ELSE createConnection(d.isRunning)],
    [d EXCEPT !.pc = "waiting", !.interval = TRUE])

\* what follows in the same turn when connection c has changed to k: the
\* probe settles (selectOptimalFileSize returns a file, a default one if the
\* probe was rejected), or the awaited connections settle
settle(c, k) ==
  LET cn == [conn EXCEPT ![c] = k] IN
  IF dl.pc = "probe" /\ c = 0 /\ k.state \in {"resolved", "rejected"}
  THEN startConnections(cn, dl)
  ELSE awaitConnections(cn, dl)

CommitTransfer(t) ==
  /\ conn' = t.conn
  /\ dl' = t.dl
  /\ UNCHANGED <<serviceVars, call, result, mon>>

\* start() calls testDownloadSpeed, which creates the probe connection
TransferStart ==
  /\ dl.pc = "idle"
  /\ CommitTransfer(
       [conn |-> [conn EXCEPT ![0] = createConnection(TRUE)],
        dl |-> [dl EXCEPT !.pc = "probe", !.isRunning = TRUE]])

\* stop()
TransferStop ==
  /\ dl.isRunning
  /\ CommitTransfer([conn |-> conn, dl |-> [dl EXCEPT !.isRunning = FALSE]])

\* the fetch of connection c resolves with a response that has a body
FetchResponds(c) ==
  /\ conn[c].state = "request"
  /\ ~conn[c].aborted
  /\ CommitTransfer(settle(c, [conn[c] EXCEPT !.state = "stream"]))

\* the fetch of connection c is rejected (or its response is not usable), by
\* itself or because the connection was aborted: the catch handler starts the
\* simulation
FetchFails(c) ==
  /\ conn[c].state = "request"
  /\ CommitTransfer(settle(c,
       simulateChunk(
         [conn[c] EXCEPT !.fault = IF conn[c].aborted THEN @ ELSE "request"],
         dl.isRunning)))

\* reader.read() of connection c delivers a chunk
ReadChunk(c) ==
  /\ conn[c].state = "stream"
  /\ ~conn[c].aborted
  /\ conn[c].received < Chunks
  /\ CommitTransfer(settle(c,
       [conn[c] EXCEPT !.received = @ + 1,
                       !.state = IF dl.isRunning THEN "stream" ELSE "resolved"]))

\* reader.read() of connection c reports the end of the stream
ReadDone(c) ==
  /\ conn[c].state = "stream"
  /\ ~conn[c].aborted
  /\ CommitTransfer(settle(c, [conn[c] EXCEPT !.state = "resolved"]))

\* reader.read() of connection c is rejected, by itself or because the
\* connection was aborted
ReadFails(c) ==
  /\ conn[c].state = "stream"
  /\ CommitTransfer(settle(c,
       [conn[c] EXCEPT !.state = "rejected",
                       !.fault = IF conn[c].aborted THEN @ ELSE "stream"]))

\* the delay of the next chunk of a simulated connection elapses
SimulateChunk(c) ==
  /\ conn[c].state = "simulated"
  /\ CommitTransfer(settle(c, simulateChunk(conn[c], dl.isRunning)))

\* the 2 s of selectOptimalFileSize elapse before the probe settles; a
\* simulated probe takes about 1 s
ProbeTimeout ==
  /\ dl.pc = "probe"
  /\ ~isLocalhost
  /\ CommitTransfer(startConnections(conn, dl))

\* config.downloadDuration elapses before the connections settle; simulated
\* connections take less than 2 s of the 12 s
DurationElapsed ==
  /\ dl.pc = "waiting"
  /\ ~isLocalhost
  /\ CommitTransfer(returnResult(conn, dl))

\* a tick of the progress interval after the test stopped running
ProgressTick ==
  /\ dl.interval
  /\ ~dl.isRunning
  /\ CommitTransfer([conn |-> conn, dl |-> [dl EXCEPT !.interval = FALSE]])

\* the rest of start() after testDownloadSpeed returned
TransferFinish ==
  /\ dl.pc = "returned"
  /\ dl.isRunning
  /\ CommitTransfer([conn |-> conn, dl |-> [dl EXCEPT !.isRunning = FALSE]])

NextTransfer ==
  \/ TransferStart
  \/ TransferStop
  \/ \E c \in ConnIds : FetchResponds(c)
  \/ \E c \in ConnIds : FetchFails(c)
  \/ \E c \in ConnIds : ReadChunk(c)
  \/ \E c \in ConnIds : ReadDone(c)
  \/ \E c \in ConnIds : ReadFails(c)
  \/ \E c \in ConnIds : SimulateChunk(c)
  \/ ProbeTimeout
  \/ DurationElapsed
  \/ ProgressTick
  \/ TransferFinish

\* one download measurement with its connections
SpecTransfer == InitHelpers /\ [][NextTransfer]_vars

\* ------------------------------------------------------------ stability

\* the speed histories calculateStability is applied to: whole Mbps
SpeedHistories ==
  UNION {[1..n -> 0..MaxSpeed] : n \in 0..MaxHistory}

\* speeds.reduce((sum, speed) => sum + speed, 0)
RECURSIVE SumSpeeds(_)
SumSpeeds(speeds) ==
  IF speeds = <<>> THEN 0 ELSE Head(speeds) + SumSpeeds(Tail(speeds))

\* n * n * variance of the history, which is a whole number:
\* n * sum(speed^2) - sum(speed)^2
ScaledVariance(speeds) ==
  Len(speeds) * SumSpeeds([i \in 1..Len(speeds) |-> speeds[i] * speeds[i]])
    - SumSpeeds(speeds) * SumSpeeds(speeds)

\* a number that is not NaN
Number(v) == [nan |-> FALSE, value |-> v]
\* the result of 0 / 0, which Math.max hands on
NaN == [nan |-> TRUE, value |-> 0]

\* calculateStability, rounded down to whole percent. With S the sum and W
\* the scaled variance, 100 * stdDev / mean = 100 * sqrt(W) / S, and the
\* least whole k with k >= 100 * sqrt(W) / S is the least k with
\* k * k * S * S >= 10000 * W. A zero mean divides 0 by 0.
calculateStability(speeds) ==
  IF Len(speeds) < 2 THEN Number(100)
  ELSE LET S == SumSpeeds(speeds)
           W == ScaledVariance(speeds)
           below == {k \in 0..100 : k * k * S * S >= 10000 * W}
       IN IF S = 0 THEN NaN
          ELSE IF below = {} THEN Number(0)
          ELSE Number(100 - (CHOOSE k \in below : \A j \in below : k <= j))

\* calculateStability is applied to a speed history
CalculateStability(speeds) ==
  /\ call = NoCall
  /\ call' = [op |-> "calculateStability", speeds |-> speeds]
  /\ result' = calculateStability(speeds)
  /\ UNCHANGED <<serviceVars, conn, dl, mon>>

NextStability ==
  NotCalled /\ \E speeds \in SpeedHistories : CalculateStability(speeds)

\* the stability metric applied to any speed history
SpecStability == InitHelpers /\ [][NextStability]_vars

\* ------------------------------------------- a download at a constant rate

\* config.overheadCompensation, 0.08, in percent
OverheadPercent == 8
\* the length speedHistory is cut to
HistoryCap == 50
\* the number of recent measurements calculateInstantaneousSpeed averages
RecentSpeeds == 5
\* speeds are held in thousandths of a Mbps, quotients rounded down
SpeedScale == 1000

\* applyOverheadCompensation(speed, config.overheadCompensation)
applyOverheadCompensation(speed) == (speed * (100 + OverheadPercent)) \div 100

\* recentSpeeds = speedHistory.slice(-5)
slice(history) ==
  SubSeq(history, Len(history) - Min(Len(history), RecentSpeeds) + 1, Len(history))

\* calculateInstantaneousSpeed(totalBytes, elapsed), where raw is
\* calculateSpeedMbps(totalBytes, elapsed)
calculateInstantaneousSpeed(history, raw) ==
  IF Len(history) < 2 THEN raw
  ELSE SumSpeeds(slice(history)) \div Len(slice(history))

\* one tick of the progress interval of testDownloadSpeed while the bytes
\* received so far give the speed raw: the compensated instantaneous speed is
\* pushed to speeds and to speedHistory, which is cut to its last 50 entries
progressTick(m, raw) ==
  LET compensatedInstantSpeed ==
        applyOverheadCompensation(calculateInstantaneousSpeed(m.speedHistory, raw))
      pushed == Append(m.speedHistory, compensatedInstantSpeed)
  IN [speeds |-> Append(m.speeds, compensatedInstantSpeed),
      speedHistory |-> IF Len(pushed) > HistoryCap THEN Tail(pushed) ELSE pushed]

\* the measurement after n ticks during which the connections delivered the
\* constant rate raw; start() empties speedHistory
RECURSIVE afterTicks(_, _)
afterTicks(raw, n) ==
  IF n = 0 THEN [speeds |-> <<>>, speedHistory |-> <<>>]
  ELSE progressTick(afterTicks(raw, n - 1), raw)

\* Math.max(...speeds)
RECURSIVE MaxOf(_)
MaxOf(speeds) ==
  IF Len(speeds) = 1 THEN Head(speeds)
  ELSE IF Head(speeds) >= MaxOf(Tail(speeds)) THEN Head(speeds)
  ELSE MaxOf(Tail(speeds))

\* the final metrics of testDownloadSpeed: the bytes received over the whole
\* time give the speed raw
finalMetrics(speeds, raw) ==
  [avgSpeed |-> applyOverheadCompensation(raw),
   peakSpeed |-> IF Len(speeds) > 0 THEN MaxOf(speeds)
                 ELSE applyOverheadCompensation(raw)]

\* a download whose connections deliver R Mbps during all of its n ticks
ConstantRateDownload(R, n) ==
  /\ call = NoCall
  /\ call' = [op |-> "testDownloadSpeed", rate |-> R * SpeedScale, ticks |-> n]
  /\ result' = finalMetrics(afterTicks(R * SpeedScale, n).speeds, R * SpeedScale)
  /\ UNCHANGED <<serviceVars, conn, dl, mon>>

NextConstantRate ==
  NotCalled /\ \E R \in 1..MaxRate, n \in 0..MaxTicks : ConstantRateDownload(R, n)

\* download measurements at a constant rate
SpecConstantRate == InitHelpers /\ [][NextConstantRate]_vars

\* -------------------------------------------------------- quality levels

\* metric values are held in tenths of their unit (ms, Mbps, percent)
Tenths == 10

\* CONSTANTS.QUALITY: the documented thresholds, in whole units
QUALITY ==
  [LATENCY        |-> [EXCELLENT |-> 20,  GOOD |-> 50, FAIR |-> 100, POOR |-> 200],
   DOWNLOAD_SPEED |-> [EXCELLENT |-> 100, GOOD |-> 25, FAIR |-> 10,  POOR |-> 5],
   UPLOAD_SPEED   |-> [EXCELLENT |-> 50,  GOOD |-> 10, FAIR |-> 5,   POOR |-> 1],
   JITTER         |-> [EXCELLENT |-> 5,   GOOD |-> 15, FAIR |-> 30,  POOR |-> 50],
   PACKET_LOSS    |-> [EXCELLENT |-> 0,   GOOD |-> 1,  FAIR |-> 3,   POOR |-> 5]]

\* the levels of QualityLevel, named as the thresholds that lead to them
LevelOf ==
  [EXCELLENT |-> "excellent", GOOD |-> "good", FAIR |-> "fair", POOR |-> "poor"]

\* getLatencyQuality with the levels of its second and third range exchanged
getLatencyQualityExchanged(latency) ==
  IF latency < 20 * Tenths THEN "excellent"
  ELSE IF latency < 50 * Tenths THEN "fair"
  ELSE IF latency < 100 * Tenths THEN "good"
  ELSE IF latency < 200 * Tenths THEN "poor"
  ELSE "very-poor"

\* qualityUtils.getLatencyQuality
getLatencyQuality(latency) ==
  IF latency < 20 * Tenths THEN "excellent"
  ELSE IF latency < 50 * Tenths THEN "good"
  ELSE IF latency < 100 * Tenths THEN "fair"
  ELSE IF latency < 200 * Tenths THEN "poor"
  ELSE "very-poor"

\* qualityUtils.getDownloadSpeedQuality
getDownloadSpeedQuality(speedMbps) ==
  IF speedMbps > 100 * Tenths THEN "excellent"
  ELSE IF speedMbps > 25 * Tenths THEN "good"
  ELSE IF speedMbps > 10 * Tenths THEN "fair"
  ELSE IF speedMbps > 5 * Tenths THEN "poor"
  ELSE "very-poor"

\* qualityUtils.getUploadSpeedQuality
getUploadSpeedQuality(speedMbps) ==
  IF speedMbps > 50 * Tenths THEN "excellent"
  ELSE IF speedMbps > 10 * Tenths THEN "good"
  ELSE IF speedMbps > 5 * Tenths THEN "fair"
  ELSE IF speedMbps > 1 * Tenths THEN "poor"
  ELSE "very-poor"

\* qualityUtils.getJitterQuality
getJitterQuality(jitter) ==
  IF jitter < 5 * Tenths THEN "excellent"
  ELSE IF jitter < 15 * Tenths THEN "good"
  ELSE IF jitter < 30 * Tenths THEN "fair"
  ELSE IF jitter < 50 * Tenths THEN "poor"
  ELSE "very-poor"

\* qualityUtils.getPacketLossQuality
getPacketLossQuality(packetLoss) ==
  IF packetLoss = 0 THEN "excellent"
  ELSE IF packetLoss < 1 * Tenths THEN "good"
  ELSE IF packetLoss < 3 * Tenths THEN "fair"
  ELSE IF packetLoss < 5 * Tenths THEN "poor"
  ELSE "very-poor"

\* getLatencyQuality inside SpeedTestService.calculateQuality
calculateQualityGetLatencyQuality(latency) ==
  IF latency <= 20 * Tenths THEN "excellent"
  ELSE IF latency <= 50 * Tenths THEN "good"
  ELSE IF latency <= 100 * Tenths THEN "fair"
  ELSE IF latency <= 200 * Tenths THEN "poor"
  ELSE "very-poor"

\* the per-metric classifiers and the metric each one classifies
MetricOf ==
  [getLatencyQuality |-> "LATENCY",
   getDownloadSpeedQuality |-> "DOWNLOAD_SPEED",
   getUploadSpeedQuality |-> "UPLOAD_SPEED",
   getJitterQuality |-> "JITTER",
   getPacketLossQuality |-> "PACKET_LOSS",
   calculateQualityGetLatencyQuality |-> "LATENCY"]

\* the classifier named op applied to value v
classify(op, v) ==
  CASE op = "getLatencyQuality" -> getLatencyQuality(v)
    [] op = "getDownloadSpeedQuality" -> getDownloadSpeedQuality(v)
    [] op = "getUploadSpeedQuality" -> getUploadSpeedQuality(v)
    [] op = "getJitterQuality" -> getJitterQuality(v)
    [] op = "getPacketLossQuality" -> getPacketLossQuality(v)
    [] op = "calculateQualityGetLatencyQuality" ->
         calculateQualityGetLatencyQuality(v)

\* a per-metric classifier is applied to a value
GetQuality(op, v) ==
  /\ call = NoCall
  /\ call' = [op |-> op, value |-> v]
  /\ result' = classify(op, v)
  /\ UNCHANGED <<serviceVars, conn, dl, mon>>

NextQualityLevels ==
  NotCalled /\ \E op \in DOMAIN MetricOf, v \in 0..MaxMetric : GetQuality(op, v)

\* the per-metric classifiers applied to any value
SpecQualityLevels == InitHelpers /\ [][NextQualityLevels]_vars

\* the score getOverallQuality gives a level
qualityScore(quality) ==
  CASE quality = "excellent" -> 5
    [] quality = "good" -> 4
    [] quality = "fair" -> 3
    [] quality = "poor" -> 2
    [] OTHER -> 1

\* the levels of the five metrics, in the order of getOverallQuality
qualities(metrics) ==
  << getLatencyQuality(metrics.latency),
     getDownloadSpeedQuality(metrics.downloadSpeed),
     getUploadSpeedQuality(metrics.uploadSpeed),
     getJitterQuality(metrics.jitter),
     getPacketLossQuality(metrics.packetLoss) >>

\* qualityUtils.getOverallQuality: the level of the average score; with five
\* scores the average is at least 4.5 when twice their sum is at least 45
getOverallQuality(metrics) ==
  LET twice == 2 * SumSpeeds([i \in 1..5 |-> qualityScore(qualities(metrics)[i])])
  IN IF twice >= 45 THEN "excellent"
     ELSE IF twice >= 35 THEN "good"
     ELSE IF twice >= 25 THEN "fair"
     ELSE IF twice >= 15 THEN "poor"
     ELSE "very-poor"

\* one value of each level for every metric, in tenths of its unit
MetricSamples ==
  [latency       |-> {100, 300, 700, 1500, 3000},
   downloadSpeed |-> {1500, 500, 150, 70, 20},
   uploadSpeed   |-> {600, 200, 70, 30, 5},
   jitter        |-> {20, 100, 200, 400, 600},
   packetLoss    |-> {0, 5, 20, 40, 100}]

\* getOverallQuality is applied to the five metrics
GetOverallQuality(m) ==
  /\ call = NoCall
  /\ call' = [op |-> "getOverallQuality", metrics |-> m]
  /\ result' = getOverallQuality(m)
  /\ UNCHANGED <<serviceVars, conn, dl, mon>>

NextOverallQuality ==
  NotCalled /\
  \E m \in [latency : MetricSamples.latency,
            downloadSpeed : MetricSamples.downloadSpeed,
            uploadSpeed : MetricSamples.uploadSpeed,
            jitter : MetricSamples.jitter,
            packetLoss : MetricSamples.packetLoss] :
    GetOverallQuality(m)

\* the composite of the five metrics applied to every combination of levels
SpecOverallQuality == InitHelpers /\ [][NextOverallQuality]_vars

\* -------------------------------------------------------- weighted scores

\* component scores of calculateQualityScore are held in halves of a point
Halves == 2
\* bytes per unit of the speeds handed to calculateQualityScore
Mebi == 1024 * 1024

\* clamp without its upper limit
clampLowerOnly(value, min, max) == IF value < min THEN min ELSE value

\* clamp(value, min, max) = Math.min(Math.max(value, min), max)
clamp(value, min, max) ==
  Min(IF value < min THEN min ELSE value, max)

\* mapRange(value, inMin, inMax, 0, 100), in halves of a point; the quotient
\* is whole for whole metric values and the ranges calculateQualityScore uses
mapRange(value, inMin, inMax) ==
  IF inMax > inMin
  THEN ((value - inMin) * 100 * Halves) \div (inMax - inMin)
  ELSE ((inMin - value) * 100 * Halves) \div (inMin - inMax)

\* the five component scores of calculateQualityScore, in halves of a point
componentScores(metrics) ==
  [latency    |-> clamp(mapRange(metrics.latency, 200, 0), 0, 100 * Halves),
   download   |-> clamp(mapRange(metrics.downloadSpeed \div Mebi, 0, 100),
                        0, 100 * Halves),
   upload     |-> clamp(mapRange(metrics.uploadSpeed \div Mebi, 0, 50),
                        0, 100 * Halves),
   jitter     |-> clamp(mapRange(metrics.jitter, 50, 0), 0, 100 * Halves),
   packetLoss |-> clamp(mapRange(metrics.packetLoss, 5, 0), 0, 100 * Halves)]

\* the weighted sum of calculateQualityScore with its weights in tenths
\* (0.3, 0.3, 0.2, 0.1, 0.1), in twentieths of a point
weightedScore(s) ==
  3 * s.latency + 3 * s.download + 2 * s.upload + 1 * s.jitter
    + 1 * s.packetLoss

\* calculateQualityScore: roundToDecimals(weightedScore, 1), in tenths of a
\* point; Math.round rounds a half up. It returns the number alone.
calculateQualityScore(metrics) ==
  [score |-> (weightedScore(componentScores(metrics)) + 1) \div Halves]

\* the levels determineOverallQuality names for its scores
qualityLevels ==
  [s \in 1..5 |->
     CASE s = 5 -> "excellent" [] s = 4 -> "good" [] s = 3 -> "fair"
       [] s = 2 -> "poor" [] s = 1 -> "very-poor"]

\* NetworkTestService.determineOverallQuality: the rounded weighted average
\* of the latency score (1..5) and the two speed scores, and its level
determineOverallQuality(latencyScore, downloadSpeed, uploadSpeed) ==
  LET downloadScore == Min(5, (downloadSpeed \div 10) + 1)
      uploadScore == Min(5, (uploadSpeed \div 5) + 1)
      overallScore ==
        (4 * latencyScore + 4 * downloadScore + 2 * uploadScore + 5) \div 10
  IN [score |-> overallScore,
      level |-> IF overallScore \in DOMAIN qualityLevels
                THEN qualityLevels[overallScore] ELSE "undefined"]

\* the metric values the weighted scores are applied to: inside, on the
\* limits of and beyond the ranges the component scores map
ScoreInputs ==
  [latency       : {0, 37, 200, 450},
   downloadSpeed : {0, 40 * Mebi, 100 * Mebi, 300 * Mebi},
   uploadSpeed   : {0, 12 * Mebi, 50 * Mebi, 90 * Mebi},
   jitter        : {0, 13, 50, 80},
   packetLoss    : {0, 2, 5, 40}]

\* calculateQualityScore is applied to five metrics
CalculateQualityScore(m) ==
  /\ call = NoCall
  /\ call' = [op |-> "calculateQualityScore", metrics |-> m]
  /\ result' = calculateQualityScore(m)
  /\ UNCHANGED <<serviceVars, conn, dl, mon>>

\* determineOverallQuality is applied to a latency score and two speeds (Mbps)
DetermineOverallQuality(l, d, u) ==
  /\ call = NoCall
  /\ call' = [op |-> "determineOverallQuality", latencyScore |-> l,
              downloadSpeed |-> d, uploadSpeed |-> u]
  /\ result' = determineOverallQuality(l, d, u)
  /\ UNCHANGED <<serviceVars, conn, dl, mon>>

NextWeightedScore ==
  \/ NotCalled /\ \E m \in ScoreInputs : CalculateQualityScore(m)
  \/ NotCalled /\
       \E l \in 1..5, d \in 0..MaxSpeedScore, u \in 0..MaxSpeedScore :
         DetermineOverallQuality(l, d, u)

\* the two weighted composites applied to any input
SpecWeightedScore == InitHelpers /\ [][NextWeightedScore]_vars

\* ------------------------------------------------- latency classification

\* useMonitoring.assessQuality
assessQuality(latency) ==
  IF latency <= 50 THEN "excellent"
  ELSE IF latency <= 100 THEN "good"
  ELSE IF latency <= 200 THEN "fair"
  ELSE IF latency <= 500 THEN "poor"
  ELSE "very-poor"

\* the latency classifiers of the code
LatencyClassifiers ==
  {"getLatencyQuality", "assessConnectionQuality", "assessQuality"}

\* the latency classifier named op applied to a latency in whole ms
classifyLatency(op, latency) ==
  CASE op = "getLatencyQuality" -> getLatencyQuality(latency * Tenths)
    [] op = "assessConnectionQuality" -> assessConnectionQuality(latency, 1)
    [] op = "assessQuality" -> assessQuality(latency)

\* latencies on, next to and between the thresholds of the classifiers, in ms
LatencySamples ==
  {0, 19, 20, 21, 35, 49, 50, 51, 99, 100, 101, 199, 200, 201, 499, 500, 501}
    \cup {500 + k : k \in 2..MaxBeyond}

\* a latency classifier is applied to two latencies
ClassifyLatencies(op, a, b) ==
  /\ call = NoCall
  /\ call' = [op |-> op, a |-> a, b |-> b]
  /\ result' = [a |-> classifyLatency(op, a), b |-> classifyLatency(op, b)]
  /\ UNCHANGED <<serviceVars, conn, dl, mon>>

NextLatencyLevels ==
  NotCalled /\
  \E op \in LatencyClassifiers, a \in LatencySamples, b \in LatencySamples :
    ClassifyLatencies(op, a, b)

\* the latency classifiers applied to any two latencies
SpecLatencyLevels == InitHelpers /\ [][NextLatencyLevels]_vars

\* ------------------------------------------------ statistics of a series

\* latency samples, in hundredths of a ms; the product by 10 of each of
\* them is exact in double arithmetic
LatencyHundredths == {20, 30, 35, 40}

\* the result sets calculateStatistics is applied to
ResultSets ==
  UNION {[1..n -> LatencyHundredths] : n \in 1..MaxResults}

\* [...values].sort((a, b) => a - b)
RECURSIVE sortAscending(_)
sortAscending(values) ==
  IF values = <<>> THEN <<>>
  ELSE LET i == CHOOSE k \in 1..Len(values) :
                  \A j \in 1..Len(values) : values[k] <= values[j]
       IN <<values[i]>> \o
          sortAscending(SubSeq(values, 1, i - 1) \o
                        SubSeq(values, i + 1, Len(values)))

\* round(value, 1) of a value given in hundredths, in tenths: Math.round
\* rounds a half up
roundToDecimals(hundredths) == (hundredths + 5) \div 10

\* round(calculateAverage(values), 1), in tenths. The exact mean is sum / n
\* hundredths; when it lies on a half of a tenth, the direction Math.round
\* takes depends on the rounding error of the double sum, which sets in with
\* the third term (0.35 + 0.35 + 0.35 is 1.0499999999999998): below tells
\* that the computed mean fell below the exact one
roundedAverage(values, below) ==
  LET n == Len(values)
      sum == SumSpeeds(values)
      halfUp == (2 * sum + 10 * n) \div (20 * n)
      onHalf == (2 * sum + 10 * n) % (20 * n) = 0
  IN IF onHalf /\ n >= 3 /\ below THEN halfUp - 1 ELSE halfUp

\* round(calculateMedian(values), 1), in tenths: the central value, or the
\* average of the two central values of an even-length set
roundedMedian(values) ==
  LET sorted == sortAscending(values)
      middle == Len(sorted) \div 2
  IN IF Len(sorted) % 2 = 0
     THEN (sorted[middle] + sorted[middle + 1] + 10) \div 20
     ELSE roundToDecimals(sorted[middle + 1])

\* LatencyTestService.calculateStatistics for a non-empty result set: the
\* rounded min, max, avg and median
latencyStatistics(values, below) ==
  [min |-> roundToDecimals(sortAscending(values)[1]),
   max |-> roundToDecimals(sortAscending(values)[Len(values)]),
   avg |-> roundedAverage(values, below),
   median |-> roundedMedian(values)]

\* calculateStatistics is applied to a result set
CalculateStatistics(values, below) ==
  /\ call = NoCall
  /\ call' = [op |-> "calculateStatistics", results |-> values]
  /\ result' = latencyStatistics(values, below)
  /\ UNCHANGED <<serviceVars, conn, dl, mon>>

NextStatistics ==
  NotCalled /\
  \E values \in ResultSets, below \in BOOLEAN : CalculateStatistics(values, below)

\* the statistics of any latency result set
SpecStatistics == InitHelpers /\ [][NextStatistics]_vars

\* ------------------------------------------------- monitoring (useMonitoring)

\* what generateDataPoint may measure: latency (ms), speeds (Mbps) and jitter
\* (ms) in tenths, as round(x, 1) leaves them, and packet loss (%) in
\* hundredths, as round(x, 2) leaves it
MonitoringSamples ==
  {[latency |-> 400, downloadSpeed |-> 800, uploadSpeed |-> 480,
    jitter |-> 50, packetLoss |-> 0],
   [latency |-> 1205, downloadSpeed |-> 398, uploadSpeed |-> 238,
    jitter |-> 124, packetLoss |-> 125]}

\* generateDataPoint resolving with a data point: the n-th one the hook
\* sampled, what it measured and the level of its latency
generateDataPoint(n, sample) ==
  [id |-> n, latency |-> sample.latency,
   downloadSpeed |-> sample.downloadSpeed, uploadSpeed |-> sample.uploadSpeed,
   jitter |-> sample.jitter, packetLoss |-> sample.packetLoss,
   quality |-> assessQuality((sample.latency + Tenths - 1) \div Tenths)]

\* the mean of values, cut off at the last decimal kept
truncatedMean(values) ==
  SumSpeeds(values) \div Len(values)

\* round(values.reduce((a, b) => a + b, 0) / values.length, d), the values
\* and the result in units of the d-th decimal
roundedMean(values) ==
  (2 * SumSpeeds(values) + Len(values)) \div (2 * Len(values))

\* the buffer that keeps every data point it was given
pushWithoutShift(dataPoints, dataPoint, maxDataPoints) ==
  Append(dataPoints, dataPoint)

\* dataPoints.push(dataPoint), then dataPoints.shift() if the buffer is
\* longer than config.maxDataPoints
pushDataPoint(dataPoints, dataPoint, maxDataPoints) ==
  LET pushed == Append(dataPoints, dataPoint)
  IN IF Len(pushed) > maxDataPoints THEN Tail(pushed) ELSE pushed

\* updateSessionStatistics: the rounded averages of the buffered data points,
\* and the level of the average latency the session had before this update
updateSessionStatistics(session) ==
  LET n == Len(session.dataPoints)
      latencies == [i \in 1..n |-> session.dataPoints[i].latency]
      downloadSpeeds == [i \in 1..n |-> session.dataPoints[i].downloadSpeed]
      uploadSpeeds == [i \in 1..n |-> session.dataPoints[i].uploadSpeed]
      jitters == [i \in 1..n |-> session.dataPoints[i].jitter]
      packetLosses == [i \in 1..n |-> session.dataPoints[i].packetLoss]
      old == session.statistics.averageLatency
  IN IF n = 0 THEN session
     ELSE [session EXCEPT !.statistics =
             [averageLatency |-> roundedMean(latencies),
              averageDownload |-> roundedMean(downloadSpeeds),
              averageUpload |-> roundedMean(uploadSpeeds),
              averageJitter |-> roundedMean(jitters),
              averagePacketLoss |-> roundedMean(packetLosses),
              overallQuality |-> assessQuality((old + Tenths - 1) \div Tenths)]]

\* startMonitoring up to its await: setError(undefined), generateDataPoint()
startMonitoring(m) ==
  [m EXCEPT !.error = FALSE, !.starts = @ + 1]

\* startMonitoring after its sample resolved with a data point: status
\* 'running', a new session with that data point, published, and an interval
startSampled(m, sample) ==
  LET testDataPoint == generateDataPoint(m.sampled + 1, sample)
      newSession ==
        [id |-> m.scheduled + 1, status |-> "running",
         dataPoints |-> <<testDataPoint>>,
         statistics |-> [averageLatency |-> testDataPoint.latency,
                         averageDownload |-> testDataPoint.downloadSpeed,
                         averageUpload |-> testDataPoint.uploadSpeed,
                         averageJitter |-> testDataPoint.jitter,
                         averagePacketLoss |-> testDataPoint.packetLoss,
                         overallQuality |-> testDataPoint.quality],
         endTime |-> FALSE]
  IN [m EXCEPT !.starts = @ - 1, !.sampled = @ + 1,
               !.status = "running",
               !.sessionRef = newSession,
               !.currentSession = newSession, !.publishedAs = "object",
               !.held = IF m.keeps THEN m.currentSession ELSE @,
               !.heldAs = IF m.keeps THEN m.publishedAs ELSE @,
               !.currentData = testDataPoint,
               !.scheduled = @ + 1,
               !.monitoringIntervalRef = m.scheduled + 1,
               !.intervals = @ \cup {m.scheduled + 1}]

\* a failed start that leaves the monitoring status as it was
startFailedKeepsStatus(m) ==
  [m EXCEPT !.starts = @ - 1, !.error = TRUE,
            !.intervals = @ \ {m.monitoringIntervalRef},
            !.monitoringIntervalRef = 0]

\* startMonitoring after its sample resolved with null: the catch block
startFailed(m) ==
  [m EXCEPT !.starts = @ - 1, !.error = TRUE, !.status = "stopped",
            !.intervals = @ \ {m.monitoringIntervalRef},
            !.monitoringIntervalRef = 0]

\* the interval callback up to its await
tick(m) ==
  [m EXCEPT !.ticks = @ + 1]

\* the interval callback after its sample resolved with a data point
tickSampled(m, sample) ==
  LET dataPoint == generateDataPoint(m.sampled + 1, sample)
      pushed == [m.sessionRef EXCEPT !.dataPoints =
                   pushDataPoint(@, dataPoint, MaxDataPoints)]
      session == updateSessionStatistics(pushed)
  IN [m EXCEPT !.ticks = @ - 1, !.sampled = @ + 1,
               !.sessionRef = session,
               !.currentData = dataPoint,
               !.currentSession = session, !.publishedAs = "copy",
               !.held = IF m.keeps THEN m.currentSession ELSE @,
               !.heldAs = IF m.keeps THEN m.publishedAs ELSE @]

\* a failed tick that clears the interval
tickFailedClearsInterval(m) ==
  [m EXCEPT !.ticks = @ - 1, !.skipped = TRUE,
            !.intervals = @ \ {m.monitoringIntervalRef},
            !.monitoringIntervalRef = 0]

\* the interval callback after its sample resolved with null: it is skipped
tickFailed(m) ==
  [m EXCEPT !.ticks = @ - 1, !.skipped = TRUE]

\* clearInterval(monitoringIntervalRef.current) and the ref set to null
clearMonitoringInterval(m) ==
  [m EXCEPT !.intervals = @ \ {m.monitoringIntervalRef},
            !.monitoringIntervalRef = 0]

\* stopMonitoring
stopMonitoring(m) ==
  LET cleared == clearMonitoringInterval(m)
      session == [m.sessionRef EXCEPT !.status = "stopped", !.endTime = TRUE]
  IN IF m.sessionRef = NoSession
     THEN [cleared EXCEPT !.status = "stopped"]
     ELSE [cleared EXCEPT !.sessionRef = session, !.status = "stopped",
                          !.currentSession = session, !.publishedAs = "copy",
                          !.held = IF m.keeps THEN m.currentSession ELSE @,
                          !.heldAs = IF m.keeps THEN m.publishedAs ELSE @]

\* pauseMonitoring
pauseMonitoring(m) ==
  LET cleared == clearMonitoringInterval(m)
      session == [m.sessionRef EXCEPT !.status = "paused"]
  IN IF m.sessionRef = NoSession
     THEN [cleared EXCEPT !.status = "paused"]
     ELSE [cleared EXCEPT !.sessionRef = session, !.status = "paused",
                          !.currentSession = session, !.publishedAs = "copy",
                          !.held = IF m.keeps THEN m.currentSession ELSE @,
                          !.heldAs = IF m.keeps THEN m.publishedAs ELSE @]

\* a resume that starts the session over with an empty buffer
resumeMonitoringCleared(m) ==
  LET session == [m.sessionRef EXCEPT !.status = "running",
                                      !.dataPoints = <<>>]
  IN [m EXCEPT !.sessionRef = session, !.status = "running",
               !.currentSession = session, !.publishedAs = "copy",
               !.held = IF m.keeps THEN m.currentSession ELSE @,
               !.heldAs = IF m.keeps THEN m.publishedAs ELSE @,
               !.scheduled = @ + 1,
               !.monitoringIntervalRef = m.scheduled + 1,
               !.intervals = @ \cup {m.scheduled + 1}]

\* resumeMonitoring, past its guard
resumeMonitoring(m) ==
  LET session == [m.sessionRef EXCEPT !.status = "running"]
  IN [m EXCEPT !.sessionRef = session, !.status = "running",
               !.currentSession = session, !.publishedAs = "copy",
               !.held = IF m.keeps THEN m.currentSession ELSE @,
               !.heldAs = IF m.keeps THEN m.publishedAs ELSE @,
               !.scheduled = @ + 1,
               !.monitoringIntervalRef = m.scheduled + 1,
               !.intervals = @ \cup {m.scheduled + 1}]

\* what a reader sees in a session it was given (setMonitoringSession): the
\* object of sessionRef shows what that object holds now; a shallow copy
\* { ...sessionRef.current } keeps its status and its statistics object, and
\* shares the dataPoints array with the session it was copied from
seenBy(m, session, as) ==
  IF session = NoSession \/ session.id # m.sessionRef.id THEN session
  ELSE IF as = "object" THEN m.sessionRef
  ELSE [session EXCEPT !.dataPoints = m.sessionRef.dataPoints]

CommitMonitoring(m) ==
  /\ mon' = m
  /\ UNCHANGED <<serviceVars, call, result, conn, dl>>

\* a call of startMonitoring that passes its guard
StartMonitoring ==
  /\ mon.status # "running"
  /\ mon.starts < MaxPending
  /\ CommitMonitoring(startMonitoring(mon))

\* the initial sample of a start resolves with a data point
StartSampled(sample) ==
  /\ mon.starts > 0
  /\ mon.sampled < MaxSamples
  /\ mon.scheduled < MaxTimers
  /\ CommitMonitoring(startSampled(mon, sample))

\* the initial sample of a start resolves with null
StartFailed ==
  /\ mon.starts > 0
  /\ CommitMonitoring(startFailed(mon))

\* interval t fires and its callback passes its guard
Tick(t) ==
  /\ t \in mon.intervals
  /\ mon.sessionRef # NoSession
  /\ mon.sessionRef.status = "running"
  /\ mon.ticks < MaxPending
  /\ CommitMonitoring(tick(mon))

\* the sample of a tick resolves with a data point
TickSampled(sample) ==
  /\ mon.ticks > 0
  /\ mon.sampled < MaxSamples
  /\ CommitMonitoring(tickSampled(mon, sample))

\* the sample of a tick resolves with null
TickFailed ==
  /\ mon.ticks > 0
  /\ CommitMonitoring(tickFailed(mon))

StopMonitoring ==
  /\ mon' = stopMonitoring(mon)
  /\ UNCHANGED <<serviceVars, call, result, conn, dl>>

PauseMonitoring ==
  /\ mon' = pauseMonitoring(mon)
  /\ UNCHANGED <<serviceVars, call, result, conn, dl>>

ResumeMonitoring ==
  /\ mon.status = "paused"
  /\ mon.sessionRef # NoSession
  /\ mon.scheduled < MaxTimers
  /\ CommitMonitoring(resumeMonitoring(mon))

NextMonitoring ==
  \/ StartMonitoring
  \/ \E sample \in MonitoringSamples : StartSampled(sample)
  \/ StartFailed
  \/ \E t \in 1..MaxTimers : Tick(t)
  \/ \E sample \in MonitoringSamples : TickSampled(sample)
  \/ TickFailed
  \/ StopMonitoring
  \/ PauseMonitoring
  \/ ResumeMonitoring

SpecMonitoring == InitHelpers /\ [][NextMonitoring]_vars

\* the hook with a reader that keeps the session it was given before
InitMonitoringReader ==
  /\ Idle
  /\ logProgress = FALSE
  /\ pc = [r \in Runs |-> "done"]
  /\ mon.keeps

SpecMonitoringReader == InitMonitoringReader /\ [][NextMonitoring]_vars

\* -------------------------------------------------------- server selection

\* the latency testServerLatency returns when none of its requests answered
NoAnswer == 9999

\* mean latencies (ms) testServerLatency may return for a server
ServerLatencies == {20, 100, 150, NoAnswer}

\* host.includes('cdn') || host.includes('cloudflare') for testServers, whose
\* last entry is the host of the page
cdnHost(pageIsCdn) == <<TRUE, TRUE, FALSE, pageIsCdn>>

\* calculateServerScore(server, latency)
calculateServerScore(cdn, latency) ==
  IF latency >= NoAnswer THEN 0
  ELSE (IF 100 - latency > 0 THEN 100 - latency ELSE 0)
       + (IF cdn THEN 10 ELSE 0)

\* results.reduce((best, current) => current.score > best.score ? current :
\* best), from element `current` on, as the index of the element it yields
RECURSIVE reduceBest(_, _, _)
reduceBest(scores, best, current) ==
  IF current > Len(scores) THEN best
  ELSE reduceBest(scores,
                  IF scores[current] > scores[best] THEN current ELSE best,
                  current + 1)

\* selectBestServer away from localhost: the scores of the probed servers and
\* the index in testServers of this.selectedServer
selectBestServerResult(latencies, pageIsCdn) ==
  LET scores == [i \in 1..TestServers |->
                   calculateServerScore(cdnHost(pageIsCdn)[i], latencies[i])]
  IN [selected |-> reduceBest(scores, 1, 2), scores |-> scores]

\* selectBestServer; on localhost no server is probed and a literal server
\* (index 0 here) with score 95 is selected
SelectBestServer(latencies, pageIsCdn) ==
  /\ call = NoCall
  /\ call' = [op |-> "selectBestServer", latencies |-> latencies,
              pageIsCdn |-> pageIsCdn]
  /\ result' = IF isLocalhost THEN [selected |-> 0, scores |-> <<95>>]
               ELSE selectBestServerResult(latencies, pageIsCdn)
  /\ UNCHANGED <<serviceVars, conn, dl, mon>>

NextServerSelection ==
  NotCalled /\ \E latencies \in [1..TestServers -> ServerLatencies],
                  pageIsCdn \in BOOLEAN :
                 SelectBestServer(latencies, pageIsCdn)

\* server selections over every outcome of the probes
SpecServerSelection == InitHelpers /\ [][NextServerSelection]_vars

\* ------------------------------------------------------------------ claims

\* C1: a run stopped while its download phase is in progress never reaches
\* Completed: it never invokes onTestComplete and never settles with a result.
\* (That such a run does not end in Error either is what C3 states.)
C1_StoppedDownloadNeverCompletes ==
  \A r \in Runs :
    stoppedAt[r] = "download" => ~completeFired[r] /\ outcome[r] # "completed"

\* C2: a run that was stopped, in whatever phase, never invokes
\* onTestComplete and never stores a result in the history.
C2_StoppedRunNeverCompletesNorSaves ==
  \A r \in Runs :
    stoppedAt[r] # "none" => ~completeFired[r] /\ ~saved[r]

\* C3: a run that was stopped never moves to Error (or Completed): it does
\* not invoke onTestError and does not settle as an error or a completion.
C3_StoppedRunNeverErrors ==
  \A r \in Runs :
    stoppedAt[r] # "none" =>
      ~errorFired[r] /\ outcome[r] \notin {"error", "completed"}

\* C4: within a run the download measurement is under way only after the
\* run's latency series has returned, and onTestComplete fires only after
\* the run's own latency series and its own upload measurement have returned.
C4_PhasesInOrder ==
  \A r \in Runs :
    /\ spc[r] \in {"probe", "dl", "ul"} => lpc[r] = "done"
    /\ completeFired[r] =>
         lpc[r] = "done" /\ spc[r] = "done" /\ speedResult[r] = r

\* C5: per phase tag, the percentages delivered to one caller never decrease.
C5_ProgressNonDecreasing ==
  \A k \in 1..Len(emitted) :
    emitted[k].type \in Tags => emitted[k].prev <= emitted[k].pct

\* C6: every delivered progress event lies inside the range of its phase:
\* initializing 0-10, latency 10-30, transition 30, download 30-70,
\* upload 70-100 (tenths of a percent).
C6_ProgressInPhaseRange ==
  \A k \in 1..Len(emitted) :
    LET e == emitted[k] IN
    /\ e.type = "initializing" => e.pct >= 0 /\ e.pct <= 100
    /\ e.type = "latency" => e.pct >= 100 /\ e.pct <= 300
    /\ e.type = "transition" => e.pct = 300
    /\ e.type = "download" => e.pct >= 300 /\ e.pct <= 700
    /\ e.type = "upload" => e.pct >= 700 /\ e.pct <= 1000

\* C7: when a component fails inside a run that nobody stopped, that run has
\* moved to Error in the same turn: onTestError invoked with the component's
\* cause, no completion, no phase left running for it.
C7_ComponentFailureEndsRunInError ==
  \A r \in Runs :
    (failedIn[r] # "none" /\ stoppedAt[r] = "none") =>
      /\ outcome[r] = "error" /\ cause[r] = "connection"
      /\ errorFired[r] /\ ~completeFired[r]
      /\ pc[r] = "done"

\* C8: within one sample the ping methods are awaited in list order: a step
\* of a series that is awaiting method m either leaves it waiting, or moves
\* to method m + 1 without recording a sample (m failed), or records the
\* sample and awaits no further method (m succeeded), or gives the sample
\* up, which happens only for the last method; every sample starts with
\* method 1.
C8_Step(r) ==
  /\ lpc[r] = "ping" =>
       \/ lpc'[r] = "ping" /\ li'[r] = li[r] /\ lm'[r] = lm[r]
       \/ /\ lpc'[r] = "ping" /\ li'[r] = li[r] /\ lm'[r] = lm[r] + 1
          /\ succeeded'[r] = succeeded[r]
       \/ /\ succeeded'[r] = succeeded[r] + 1
          /\ lpc'[r] \in {"delay", "done"}
       \/ /\ lm[r] = PingMethods
          /\ succeeded'[r] = succeeded[r]
          /\ \/ lpc'[r] = "done"
             \/ lpc'[r] = "ping" /\ li'[r] = li[r] + 1
  /\ (lpc'[r] = "ping" /\ (lpc[r] # "ping" \/ li'[r] # li[r])) => lm'[r] = 1
  /\ lpc[r] # "ping" => succeeded'[r] = succeeded[r]

C8_FallbackChainInOrder == [][\A r \in Runs : C8_Step(r)]_vars

\* a series whose first sample failed in every method and whose second
\* sample has reached the last method
C8_LastMethodOfSecondSample ==
  \E r \in Runs :
    lpc[r] = "ping" /\ li[r] = 1 /\ succeeded[r] = 0 /\ lm[r] = PingMethods

\* C9: a series that was not stopped makes all Samples attempts, whatever
\* samples failed, and returns a result set over its successful samples.
C9_SeriesMakesAllAttempts ==
  \A r \in Runs :
    (lpc[r] = "done" /\ stoppedAt[r] = "none") =>
      li[r] = Samples /\ returned[r].samples = succeeded[r]

\* C10: a series that made all its Samples attempts and in which every
\* attempt failed returns no result set (and no quality level) to its caller.
C10_TotalFailureRaises ==
  \A r \in Runs :
    (lpc[r] = "done" /\ li[r] = Samples /\ succeeded[r] = 0) =>
      returned[r] = NoResult

\* C11: the result set of a series reports packetLoss = (attempted -
\* succeeded) / attempted over the attempts the series made (li of them),
\* also when it was stopped early, and holds the successful samples only
\* (packetLoss in tenths of a percent, rounded to one decimal).
C11_PacketLossOverAttempts ==
  \A r \in Runs :
    (lpc[r] = "done" /\ li[r] >= 1) =>
      /\ returned[r].samples = succeeded[r]
      /\ returned[r].packetLoss =
           (2000 * (li[r] - succeeded[r]) + li[r]) \div (2 * li[r])

\* C12: a series starts its next sample attempt only out of the wait between
\* samples, whether the attempt before succeeded or failed.
C12_IntervalBetweenAttempts ==
  [][\A r \in Runs :
       (lpc'[r] = "ping" /\ li'[r] = li[r] + 1) => lpc[r] = "delay"]_vars

\* C13: for every probe estimate e >= 0 the payload selector returns the file
\* whose half-open range [minSpeed, maxSpeed) contains e, so that a boundary
\* estimate (10, 25, 50, 100) selects the higher file; 0 selects the smallest
\* file and an estimate above all ranges selects the largest one.
C13_SelectorHalfOpenRanges ==
  call.op = "selectOptimalFileSize" =>
    IF call.estimatedSpeed >= progressiveFiles[Len(progressiveFiles)].maxSpeed
    THEN result.name = "xxlarge"
    ELSE /\ result.minSpeed <= call.estimatedSpeed
         /\ call.estimatedSpeed < result.maxSpeed

\* C14: when a throughput measurement has returned its result, every
\* connection still in flight is cancelled: no connection receives or reports
\* bytes after the measurement has returned.
C14_NoBytesAfterReturn ==
  [][dl.pc = "returned" =>
       \A c \in ConnIds : conn'[c].received = conn[c].received]_vars

\* C15: with two or more parallel connections, the failure of a single
\* connection (on request or in the middle of the stream) is not fatal: the
\* measurement raises no error.
C15_SingleFailureNotFatal ==
  (/\ Connections >= 2
   /\ Cardinality({c \in 1..Connections : conn[c].fault # "none"}) = 1)
    => dl.pc # "raised"

\* C16: if every parallel connection of a measurement fails, the measurement
\* returns no throughput result (to a test that was not stopped).
C16_TotalFailureReturnsNoResult ==
  (\A c \in 1..Connections : conn[c].fault # "none") =>
    ~(dl.pc = "returned" /\ dl.isRunning)

\* C17: the stability metric is 100 whenever the speed history holds fewer
\* than 2 samples or all its samples are identical (for every common value,
\* 0 included), and it is always a number within 0..100.
C17_StabilityOfEqualSamples ==
  call.op = "calculateStability" =>
    /\ ~result.nan
    /\ result.value \in 0..100
    /\ (\A i, j \in 1..Len(call.speeds) : call.speeds[i] = call.speeds[j])
         => result.value = 100

\* C18: a download whose connections deliver a constant rate R at every tick
\* of its duration yields an avgSpeed and a peakSpeed that are both at least R
\* and at most R * (1 + overheadCompensation), for any number of ticks.
C18_ConstantRateWithinCompensation ==
  call.op = "testDownloadSpeed" =>
    /\ call.rate <= result.avgSpeed
    /\ result.avgSpeed <= applyOverheadCompensation(call.rate)
    /\ call.rate <= result.peakSpeed
    /\ result.peakSpeed <= applyOverheadCompensation(call.rate)

\* C19: the per-metric thresholds are inclusive on the better side: a value
\* exactly on a threshold of the documented table is classified at the level
\* of that threshold (a latency of exactly 20 ms is excellent).
C19_ThresholdsInclusive ==
  call.op \in DOMAIN MetricOf =>
    \A t \in DOMAIN LevelOf :
      call.value = QUALITY[MetricOf[call.op]][t] * Tenths => result = LevelOf[t]

\* C20: the composite of the five metrics returns the worst of the five
\* per-metric levels, for every combination of levels: the overall level
\* scores as the lowest-scoring metric does.
C20_OverallIsWorstOfFive ==
  call.op = "getOverallQuality" =>
    /\ \A i \in 1..5 :
         qualityScore(result) <= qualityScore(qualities(call.metrics)[i])
    /\ \E i \in 1..5 :
         qualityScore(result) = qualityScore(qualities(call.metrics)[i])

\* C21 (as stated): the weighted composite score is the 30/30/20/10/10 sum of
\* the clamped component scores, lies within 0..100 for all non-negative
\* metrics, and is bucketed back into one of the five quality levels.
C21_WeightedScoreBucketed ==
  call.op = "calculateQualityScore" =>
    /\ result.score \in 0..1000
    /\ "level" \in DOMAIN result
    /\ result.level \in {"excellent", "good", "fair", "poor", "very-poor"}

\* C21 (amended): calculateQualityScore returns the 30/30/20/10/10 sum of the
\* clamped component scores, a number within 0..100 (held in tenths), and no
\* level; the composite that is bucketed is determineOverallQuality, whose
\* score lies within 1..5 and always names one of the five levels.
C21_WeightedScoreInRange ==
  /\ call.op = "calculateQualityScore" =>
       /\ result.score \in 0..1000
       /\ DOMAIN result = {"score"}
       /\ \A c \in DOMAIN componentScores(call.metrics) :
            componentScores(call.metrics)[c] \in 0..(100 * Halves)
  /\ call.op = "determineOverallQuality" =>
       /\ result.score \in 1..5
       /\ result.level \in {"excellent", "good", "fair", "poor", "very-poor"}

\* C21 witness: every metric beyond the best end of its range (the clamps
\* act) gives the full score
C21_ClampedFullScore ==
  /\ call.op = "calculateQualityScore"
  /\ call.metrics.downloadSpeed > 100 * Mebi
  /\ call.metrics.uploadSpeed > 50 * Mebi
  /\ call.metrics.latency = 0
  /\ result.score = 1000

\* C22: latency classification is monotonic: for all latencies a <= b, each
\* latency classifier gives a a level at least as good as the level of b.
C22_LatencyMonotonic ==
  (call.op \in LatencyClassifiers /\ call.a <= call.b) =>
    qualityScore(result.a) >= qualityScore(result.b)

\* C22 witness: two latencies on the two sides of a threshold get different
\* levels, the lower latency the better one
C22_LevelsAcrossThreshold ==
  /\ call.op = "getLatencyQuality"
  /\ call.a = 19
  /\ call.b = 20
  /\ result = [a |-> "excellent", b |-> "good"]

\* C23: for every latency result set of n >= 1 samples the reported
\* (rounded) values satisfy min <= median <= max and min <= avg <= max.
C23_StatisticsOrdered ==
  call.op = "calculateStatistics" =>
    /\ result.min <= result.median
    /\ result.median <= result.max
    /\ result.min <= result.avg
    /\ result.avg <= result.max

\* C24: the data-point buffer of the monitoring session never holds more than
\* maxDataPoints points and stays in arrival order, and a tick that appends
\* to a full buffer evicts exactly the oldest point.
C24_BufferBounded ==
  [][LET before == mon.sessionRef.dataPoints
         after == mon'.sessionRef.dataPoints
     IN /\ Len(after) <= MaxDataPoints
        /\ \A i, j \in 1..Len(after) : i < j => after[i].id < after[j].id
        /\ (/\ mon'.ticks < mon.ticks
            /\ mon'.sampled > mon.sampled
            /\ Len(before) = MaxDataPoints)
           => after = Append(Tail(before), mon'.currentData)]_vars

\* a session whose full buffer has lost its first data point
C24_OldestEvicted ==
  /\ Len(mon.sessionRef.dataPoints) = MaxDataPoints
  /\ mon.sessionRef.dataPoints[1].id > mon.sessionRef.id
  /\ mon.sessionRef.status = "running"

\* C25: while the session is paused its data-point count does not change: no
\* step between pause() and the next resume() appends a data point.
C25_PausedCountUnchanged ==
  [][(/\ mon.sessionRef.status = "paused"
      /\ mon'.sessionRef.status = "paused"
      /\ mon'.sessionRef.id = mon.sessionRef.id)
     => Len(mon'.sessionRef.dataPoints) = Len(mon.sessionRef.dataPoints)]_vars

\* C26: the monitoring status only follows Stopped -> Running <-> Paused ->
\* Stopped: it becomes Paused only from Running, and a session that was
\* stopped is never set running again.
C26_StatusTransitions ==
  [][/\ (mon'.status = "paused" /\ mon.status # "paused")
          => mon.status = "running"
     /\ (mon'.sessionRef.status = "paused" /\ mon.sessionRef.status # "paused")
          => mon.sessionRef.status = "running"
     /\ (mon.sessionRef.status = "stopped"
         /\ mon'.sessionRef.id = mon.sessionRef.id)
          => mon'.sessionRef.status = "stopped"]_vars

\* C27: once stop() has set the session Stopped and stamped its endTime the
\* session is final: no later step (a tick in flight at stop() included)
\* appends a data point to it, changes its statistics or publishes it again.
C27_StoppedSessionFinal ==
  [][(/\ mon.sessionRef.status = "stopped"
      /\ mon.sessionRef.endTime
      /\ mon.status = "stopped"
      /\ mon'.status = "stopped"
      /\ mon'.sessionRef.id = mon.sessionRef.id)
     => /\ mon'.sessionRef = mon.sessionRef
        /\ mon'.currentSession = mon.currentSession
        /\ mon'.currentData = mon.currentData]_vars

\* C28: when the immediate sample of a start resolves without a data point,
\* the start fails with an error, creates and publishes no session, schedules
\* no interval, and the monitoring status is Stopped.
C28_FailedStartLeavesStopped ==
  [][(mon'.starts < mon.starts /\ mon'.sampled = mon.sampled)
     => /\ mon'.error
        /\ mon'.status = "stopped"
        /\ mon'.sessionRef = mon.sessionRef
        /\ mon'.currentSession = mon.currentSession
        /\ mon'.scheduled = mon.scheduled
        /\ mon'.intervals \subseteq mon.intervals]_vars

\* a first start has failed: an error, no session, no interval, Stopped
C28_FirstStartFailed ==
  /\ mon.error
  /\ mon.starts = 0
  /\ mon.sessionRef = NoSession
  /\ mon.intervals = {}
  /\ mon.status = "stopped"

\* C29: at most one tick interval is scheduled at any time, and none remains
\* scheduled once the monitoring status is Paused or Stopped.
C29_SingleInterval ==
  /\ Cardinality(mon.intervals) <= 1
  /\ mon.status \in {"paused", "stopped"} => mon.intervals = {}

\* C30: a tick whose sample resolves without a data point is skipped: the
\* session (its buffer, statistics and status), the published session, the
\* monitoring status and the scheduled intervals are left as they were.
C30_FailedTickSkipped ==
  [][(mon'.ticks < mon.ticks /\ mon'.sampled = mon.sampled)
     => /\ mon'.sessionRef = mon.sessionRef
        /\ mon'.currentSession = mon.currentSession
        /\ mon'.currentData = mon.currentData
        /\ mon'.status = mon.status
        /\ mon'.monitoringIntervalRef = mon.monitoringIntervalRef
        /\ mon'.intervals = mon.intervals]_vars

\* a tick was skipped and the session is still running on its interval,
\* with a later tick awaiting its sample
C30_RunningAfterSkippedTick ==
  /\ mon.skipped
  /\ mon.status = "running"
  /\ mon.sessionRef.status = "running"
  /\ mon.monitoringIntervalRef \in mon.intervals
  /\ mon.ticks > 0

\* the statistic that averages each metric of the data points
averageOf ==
  [latency |-> "averageLatency", downloadSpeed |-> "averageDownload",
   uploadSpeed |-> "averageUpload", jitter |-> "averageJitter",
   packetLoss |-> "averagePacketLoss"]

\* the values of one metric over the data points a session holds
buffered(session, metric) ==
  [i \in 1..Len(session.dataPoints) |-> session.dataPoints[i][metric]]

C32_OverallQualityOfLatestAverages ==
  [][(mon'.ticks < mon.ticks /\ mon'.sampled > mon.sampled)
     => LET statistics == mon'.sessionRef.statistics
            latest == assessQuality(
                        (statistics.averageLatency + Tenths - 1) \div Tenths)
        IN qualityScore(statistics.overallQuality) <= qualityScore(latest)]_vars

\* C33: resume() leaves the session (its id, data points and statistics) as
\* it was at pause and only sets it running, and a tick that appends after it
\* pushes onto that same buffer and recomputes, never resets, the statistics.
C33_ResumeKeepsSession ==
  [][/\ (mon.status = "paused" /\ mon'.status = "running"
         /\ mon'.starts = mon.starts)
        => /\ mon'.sessionRef = [mon.sessionRef EXCEPT !.status = "running"]
           /\ mon'.currentSession = mon'.sessionRef
           /\ mon'.monitoringIntervalRef \in mon'.intervals
     /\ (mon'.ticks < mon.ticks /\ mon'.sampled > mon.sampled)
        => /\ mon'.sessionRef.id = mon.sessionRef.id
           /\ mon'.sessionRef.dataPoints =
                pushDataPoint(mon.sessionRef.dataPoints, mon'.currentData,
                              MaxDataPoints)
           /\ mon'.sessionRef.statistics.averageLatency =
                roundedMean(buffered(mon'.sessionRef, "latency"))]_vars

\* a session that was paused with its first data point and resumed holds a
\* second data point of a later tick
C33_AppendedAfterResume ==
  /\ mon.sessionRef.status = "running"
  /\ mon.scheduled = mon.sessionRef.id + 1
  /\ mon.monitoringIntervalRef = mon.scheduled
  /\ Len(mon.sessionRef.dataPoints) = 2
  /\ mon.sessionRef.dataPoints[1].id = mon.sessionRef.id

\* C34: every session a reader was given, the one published last and the one
\* published before it, is consistent: its averages are those of exactly
\* the data points the reader sees in it.
C34_SnapshotsConsistent ==
  \A seen \in {seenBy(mon, mon.currentSession, mon.publishedAs),
               seenBy(mon, mon.held, mon.heldAs)} :
    seen # NoSession =>
      \A metric \in DOMAIN averageOf :
        seen.statistics[averageOf[metric]] = roundedMean(buffered(seen, metric))

\* C35: at any time at most one run is executing on the NetworkTestService
\* (a call made before an earlier call has settled is rejected, also after
\* stop()), and a run that nobody stopped is never marked not-running by the
\* cleanup of an earlier run.
C35_SingleRunExecuting ==
  /\ Cardinality({r \in Runs : pc[r] \notin {"idle", "done"}}) <= 1
  /\ \A r \in Runs :
       (pc[r] \notin {"idle", "done"} /\ stoppedAt[r] = "none")
         => nts.isRunning

\* C36: provided every network request and timer eventually completes, every
\* call of startCompleteTest eventually settles, whatever stop() calls and
\* later calls are interleaved with it.
C36_EveryRunSettles ==
  \A r \in Runs : (pc[r] # "idle") ~> (pc[r] = "done")

\* C37: every result set a LatencyTestService series returns holds samples
\* of that series only (as many as the series measured itself), at most the
\* configured number of them, and a packetLoss within 0..100 % (in tenths).
C37_ResultSetOfOneSeries ==
  \A r \in Runs :
    (lpc[r] = "done" /\ returned[r] # NoResult) =>
      /\ returned[r].samples <= Samples
      /\ returned[r].samples <= succeeded[r]
      /\ returned[r].packetLoss >= 0
      /\ returned[r].packetLoss <= 1000

\* C38: the instantaneous value each progress tick appends to the speed
\* history is the speed measured from the transferred bytes with the overhead
\* compensation applied exactly once; at a constant rate R every appended
\* value is therefore R * (1 + overheadCompensation), whatever was appended
\* before.
C38_CompensatedOnce ==
  call.op = "testDownloadSpeed" =>
    LET speeds == afterTicks(call.rate, call.ticks).speeds
    IN \A k \in 1..Len(speeds) :
         speeds[k] = applyOverheadCompensation(call.rate)

\* C39: server selection selects the candidate with the highest score, the
\* earliest of them on a tie; a candidate whose probe failed has score 0 and
\* is selected only if every candidate failed.
C39_BestServerSelected ==
  (call.op = "selectBestServer" /\ ~isLocalhost) =>
    LET failed(i) == call.latencies[i] >= NoAnswer
        selected == result.selected
    IN /\ selected \in 1..TestServers
       /\ \A i \in 1..TestServers : result.scores[i] <= result.scores[selected]
       /\ \A i \in 1..TestServers :
            i < selected => result.scores[i] < result.scores[selected]
       /\ \A i \in 1..TestServers : failed(i) => result.scores[i] = 0
       /\ failed(selected) => \A i \in 1..TestServers : failed(i)
====
